---- MODULE Spec2Model ----
(***************************************************************************)
(* MovieMatch discovery loop (frontend/src/components/MovieMatchApp.tsx).  *)
(*                                                                         *)
(* The component is a React function component.  Its state is the set of  *)
(* useState cells (currentView, currentMovie, userLists, userVector,       *)
(* isLoading, hasStarted, filters) and the useRef cells                    *)
(* (recentlyFetchedIds, fetchTimeoutRef, fetchAttemptCount).  A step of    *)
(* the model is one JavaScript task: an event handler, a timer callback   *)
(* or the continuation of an awaited request, followed by the re-render    *)
(* React performs for the batched state updates and by the effects of     *)
(* that render.  A function created in a render reads the useState cells  *)
(* of that render (its closure) and the live value of every ref.          *)
(***************************************************************************)
EXTENDS Integers, Sequences, FiniteSets, TLC

(* ------------------------------------------------------------------ *)
(* Bounds of the model                                                  *)
(* ------------------------------------------------------------------ *)
NumIds == 2
MaxListed == 1
MaxInFlight == 2
MaxListedL == 2
MaxPreselect == 1
MaxListedP == 2
NumIdsW == 52
MaxListedW == 1
MaxUnlistedT == 1
MaxListedM == 2

(* ------------------------------------------------------------------ *)
(* Program constants                                                    *)
(* ------------------------------------------------------------------ *)
maxFetchAttempts == 5
MaxRecentIds == 50
TrimThreshold == 30
TrimKeep == 15
BackoffBase == 200
BackoffCap == 2000
YearMin == 1900
YearMax == 2024
YearDefaultStart == 1990
SwipeThreshold == 120
VerticalThreshold == 100
IndicatorThreshold == 60

NoMovie == 0
Null == << >>
NoTimer == 0
AbsentStr == ""
AbsentNum == 0

MovieIds == 1..NumIds
Vectors == { <<2, 5>>, <<3, 5>> }
availableGenres == { "Action" }
availableLanguages == { "en" }
YearRanges == { <<YearMin, YearMax>>, <<2000, 2010>> }
ListNames == { "liked", "saved", "disliked" }
Actions == { "like", "dislike", "skip", "save" }

VARIABLES
  currentView, currentMovie, userLists, userVector, isLoading, hasStarted,
  filters, recentlyFetchedIds, fetchTimeoutRef, fetchAttemptCount,
  timers, inFlight,
  lastOp, lastFetch, lastCancel, lastStale, runReqs, runDups, lastVector,
  feedbackPending, lastSent, lastAction,
  swipeCard, lastGesture, lastMove

vars == << currentView, currentMovie, userLists, userVector, isLoading,
           hasStarted, filters, recentlyFetchedIds, fetchTimeoutRef,
           fetchAttemptCount, timers, inFlight,
           lastOp, lastFetch, lastCancel, lastStale, runReqs, runDups,
           lastVector, feedbackPending, lastSent, lastAction,
           swipeCard, lastGesture, lastMove >>

(* ------------------------------------------------------------------ *)
(* Helpers on arrays and insertion-ordered sets                         *)
(* ------------------------------------------------------------------ *)
Range(seq) == { seq[i] : i \in 1..Len(seq) }

Min(a, b) == IF a < b THEN a ELSE b

\* Array.prototype.filter(m => m.movieId !== id)
Without(seq, id) == SelectSeq(seq, LAMBDA x : x # id)

\* Array.prototype.slice(-n)
SliceLast(seq, n) ==
  IF Len(seq) <= n THEN seq ELSE SubSeq(seq, Len(seq) - n + 1, Len(seq))

\* Set.prototype.add on an insertion-ordered Set
SetAdd(seq, id) == IF id \in Range(seq) THEN seq ELSE Append(seq, id)

Count(seq, id) == Cardinality({ i \in 1..Len(seq) : seq[i] = id })

NoDup(seq) == \A i, j \in 1..Len(seq) : seq[i] = seq[j] => i = j

ListedIds(lists) ==
  Range(lists.liked) \cup Range(lists.saved) \cup Range(lists.disliked)

TotalListed(lists) ==
  Len(lists.liked) + Len(lists.saved) + Len(lists.disliked)

(* ------------------------------------------------------------------ *)
(* The component state as one record, so that a handler, the fetch it   *)
(* calls and the effect of the following render compose in sequence     *)
(* ------------------------------------------------------------------ *)
\* the useState cells of SwipeCard when it mounts
SwipeCardInit ==
  [ isDragging |-> FALSE, startX |-> 0, startY |-> 0,
    translateX |-> 0, translateY |-> 0 ]

\* no gesture was released in the step
GestureIdle == [ action |-> "idle", dx |-> 0, dy |-> 0 ]

\* handleMoveMovie was not called in the step
NoMove == [ movie |-> NoMovie, fromList |-> "none", toList |-> "none" ]

Cur ==
  [ currentView |-> currentView, currentMovie |-> currentMovie,
    userLists |-> userLists, userVector |-> userVector,
    isLoading |-> isLoading, hasStarted |-> hasStarted, filters |-> filters,
    recentlyFetchedIds |-> recentlyFetchedIds,
    fetchTimeoutRef |-> fetchTimeoutRef,
    fetchAttemptCount |-> fetchAttemptCount,
    timers |-> timers, inFlight |-> inFlight,
    feedbackPending |-> feedbackPending,
    swipeCard |-> swipeCard, gesture |-> GestureIdle,
    lastFetch |-> "none", issuedBy |-> "none", cancelled |-> FALSE,
    sent |-> << >>, action |-> "none", move |-> NoMove ]

\* The useState cells a function created in the render of state s reads
Closure(s) ==
  [ isLoading |-> s.isLoading, userLists |-> s.userLists,
    filters |-> s.filters, userVector |-> s.userVector ]

getAllSeenIds(cl) ==
  cl.userLists.liked \o cl.userLists.saved \o cl.userLists.disliked

getLikedIds(cl) == cl.userLists.liked

\* variant of the filter object that uses the genre and the language
\* selected last
FilterObjLastSelected(f) ==
  [ genre |-> IF Len(f.genres) > 0 THEN f.genres[Len(f.genres)] ELSE AbsentStr,
    language |-> IF Len(f.languages) > 0 THEN f.languages[Len(f.languages)]
                                         ELSE AbsentStr,
    year_start |-> IF f.yearRange[1] # YearMin THEN f.yearRange[1] ELSE AbsentNum,
    year_end |-> IF f.yearRange[2] # YearMax THEN f.yearRange[2] ELSE AbsentNum ]

FilterObj(f) ==
  [ genre |-> IF Len(f.genres) > 0 THEN f.genres[1] ELSE AbsentStr,
    language |-> IF Len(f.languages) > 0 THEN f.languages[1] ELSE AbsentStr,
    year_start |-> IF f.yearRange[1] # YearMin THEN f.yearRange[1] ELSE AbsentNum,
    year_end |-> IF f.yearRange[2] # YearMax THEN f.yearRange[2] ELSE AbsentNum ]

\* the request built with the ids of the lists only, without the window
RequestOfListsOnly(cl, recent) ==
  [ user_vector |-> cl.userVector,
    seen_ids |-> getAllSeenIds(cl),
    liked_ids |-> getLikedIds(cl),
    filterObj |-> FilterObj(cl.filters) ]

\* the request built without the stored preference vector
RequestOfNoVector(cl, recent) ==
  [ user_vector |-> Null,
    seen_ids |-> getAllSeenIds(cl) \o recent,
    liked_ids |-> getLikedIds(cl),
    filterObj |-> FilterObj(cl.filters) ]

\* The body of POST /recommend built by the closure cl
RequestOf(cl, recent) ==
  [ user_vector |-> cl.userVector,
    seen_ids |-> getAllSeenIds(cl) \o recent,
    liked_ids |-> getLikedIds(cl),
    filterObj |-> FilterObj(cl.filters) ]

\* fetchNextMovie leaving the pending timer alone
ClearTimeoutKeepTimer(s) == s

\* if (fetchTimeoutRef.current) clearTimeout(fetchTimeoutRef.current)
ClearTimeout(s) ==
  IF s.fetchTimeoutRef # NoTimer
  THEN [ s EXCEPT !.timers = { t \in @ : t.handle # s.fetchTimeoutRef },
                  !.cancelled = \E t \in s.timers : t.handle = s.fetchTimeoutRef ]
  ELSE s

\* fetchNextMovie without the check of isLoading of its first line
FetchNextMovieNoGuard(s, cl, who) ==
  LET s1 == ClearTimeout(s) IN
  IF s1.fetchAttemptCount >= maxFetchAttempts
  THEN [ s1 EXCEPT !.recentlyFetchedIds = << >>,
                   !.fetchAttemptCount = 0,
                   !.currentMovie = NoMovie,
                   !.isLoading = FALSE,
                   !.lastFetch = "aborted" ]
  ELSE [ s1 EXCEPT !.isLoading = TRUE,
                   !.inFlight = Append(@,
                      [ cl |-> cl,
                        allExcludedIds |-> getAllSeenIds(cl) \o s1.recentlyFetchedIds,
                        req |-> RequestOf(cl, s1.recentlyFetchedIds),
                        stale |-> FALSE ]),
                   !.lastFetch = "issued",
                   !.issuedBy = who,
                   !.sent = Append(@, "recommend") ]

\* fetchNextMovie up to its await: the closure cl is the render the called
\* function was created in, who is "user" or "timer"
FetchNextMovie(s, cl, who) ==
  IF cl.isLoading
  THEN [ s EXCEPT !.lastFetch = "blocked" ]
  ELSE LET s1 == ClearTimeout(s) IN
       IF s1.fetchAttemptCount >= maxFetchAttempts
       THEN [ s1 EXCEPT !.recentlyFetchedIds = << >>,
                        !.fetchAttemptCount = 0,
                        !.currentMovie = NoMovie,
                        !.isLoading = FALSE,
                        !.lastFetch = "aborted" ]
       ELSE [ s1 EXCEPT !.isLoading = TRUE,
                        !.inFlight = Append(@,
                           [ cl |-> cl,
                             allExcludedIds |-> getAllSeenIds(cl) \o s1.recentlyFetchedIds,
                             req |-> RequestOf(cl, s1.recentlyFetchedIds),
                             stale |-> FALSE ]),
                        !.lastFetch = "issued",
                        !.issuedBy = who,
                        !.sent = Append(@, "recommend") ]

\* useEffect(..., [filters, hasStarted, currentView]) of the render of s
FetchEffect(s) ==
  IF s.hasStarted /\ s.currentView = "swipe"
  THEN FetchNextMovie(s, Closure(s), "user")
  ELSE s


(* ------------------------------------------------------------------ *)
(* The continuation of fetchNextMovie after its await, for the request  *)
(* r of inFlight: one operator per kind of outcome                      *)
(* ------------------------------------------------------------------ *)
RemoveAt(seq, i) == SubSeq(seq, 1, i - 1) \o SubSeq(seq, i + 1, Len(seq))

NewHandle(s) ==
  CHOOSE h \in 1..(Cardinality(s.timers) + 1) :
    h \notin { t.handle : t \in s.timers }

\* Math.min(200 * Math.pow(2, n - 1), 2000)
\* variant of the delay that grows by 200 ms per attempt
BackoffDelayLinear(n) == Min(BackoffBase * n, BackoffCap)

\* Math.min(200 * Math.pow(2, fetchAttemptCount.current - 1), 2000)
BackoffDelay(n) == Min(BackoffBase * 2 ^ (n - 1), BackoffCap)

\* the error branch without the reset of fetchAttemptCount
ResolveErrorKeepCount(s) ==
  [ s EXCEPT !.currentMovie = NoMovie,
             !.isLoading = FALSE ]

\* if (response.error) { ... } finally { setIsLoading(false) }
ResolveError(s) ==
  [ s EXCEPT !.currentMovie = NoMovie,
             !.fetchAttemptCount = 0,
             !.isLoading = FALSE ]

\* catch (error) { ... } finally { setIsLoading(false) }
ResolveFailure(s) ==
  [ s EXCEPT !.currentMovie = NoMovie,
             !.fetchAttemptCount = 0,
             !.isLoading = FALSE ]

\* variant that treats a response without movie like an error response
ResolveEmptyLikeError(s) ==
  [ s EXCEPT !.currentMovie = NoMovie,
             !.fetchAttemptCount = 0,
             !.isLoading = FALSE ]

\* neither response.error nor response.movie: only the finally block runs
ResolveEmpty(s) == [ s EXCEPT !.isLoading = FALSE ]

\* the duplicate branch with the retry scheduled before the check of the
\* attempt count, so that it is scheduled after the last attempt too
ResolveDuplicateAlwaysRetry(s, r, m) ==
  LET n == s.fetchAttemptCount + 1
      s1 == [ s EXCEPT !.recentlyFetchedIds = SetAdd(@, m),
                       !.fetchAttemptCount = n,
                       !.isLoading = FALSE ]
      h == NewHandle(s1)
      s2 == [ s1 EXCEPT !.timers = @ \cup { [ handle |-> h, cl |-> r.cl,
                                              delay |-> BackoffDelay(n) ] },
                        !.fetchTimeoutRef = h ]
  IN IF n >= maxFetchAttempts
     THEN [ s2 EXCEPT !.currentMovie = NoMovie ]
     ELSE s2

\* the branch if (movieExists) of a response carrying movie m
ResolveDuplicate(s, r, m) ==
  LET n == s.fetchAttemptCount + 1
      s1 == [ s EXCEPT !.recentlyFetchedIds = SetAdd(@, m),
                       !.fetchAttemptCount = n,
                       !.isLoading = FALSE ]
  IN IF n >= maxFetchAttempts
     THEN [ s1 EXCEPT !.currentMovie = NoMovie ]
     ELSE LET h == NewHandle(s1) IN
          [ s1 EXCEPT !.timers = @ \cup { [ handle |-> h, cl |-> r.cl,
                                            delay |-> BackoffDelay(n) ] },
                      !.fetchTimeoutRef = h ]

\* the success branch without the reset of fetchAttemptCount
ResolveAcceptKeepCount(s, m, uv) ==
  LET added == SetAdd(s.recentlyFetchedIds, m) IN
  [ s EXCEPT !.recentlyFetchedIds =
                IF Len(added) > MaxRecentIds THEN SliceLast(added, MaxRecentIds)
                                              ELSE added,
             !.currentMovie = m,
             !.userVector = IF uv # Null THEN uv ELSE @,
             !.isLoading = FALSE ]

\* the success branch of a response carrying movie m and user_vector uv
ResolveAccept(s, m, uv) ==
  LET added == SetAdd(s.recentlyFetchedIds, m) IN
  [ s EXCEPT !.recentlyFetchedIds =
                IF Len(added) > MaxRecentIds THEN SliceLast(added, MaxRecentIds)
                                              ELSE added,
             !.fetchAttemptCount = 0,
             !.currentMovie = m,
             !.userVector = IF uv # Null THEN uv ELSE @,
             !.isLoading = FALSE ]

\* else if (response.movie) { const movieExists = allExcludedIds.includes(...) }
ResolveMovie(s, r, m, uv) ==
  IF m \in Range(r.allExcludedIds)
  THEN ResolveDuplicate(s, r, m)
  ELSE ResolveAccept(s, m, uv)

(* ------------------------------------------------------------------ *)
(* The event handlers as functions of the state record                  *)
(* ------------------------------------------------------------------ *)
\* handleStartSwiping(preSelectedMovies), before the render
StartSwiping(s, pre) ==
  [ s EXCEPT !.userLists.liked = @ \o pre,
             !.currentView = "swipe",
             !.hasStarted = TRUE ]

GoHome(s) ==
  [ s EXCEPT !.currentView = "intro",
             !.hasStarted = FALSE,
             !.currentMovie = NoMovie,
             !.userVector = Null ]

\* the switch of handleAction on the lists of the handler's render
Classify(lists, movie, action) ==
  CASE action = "like" -> [ lists EXCEPT !.liked = Append(@, movie) ]
    [] action = "dislike" -> [ lists EXCEPT !.disliked = Append(@, movie) ]
    [] action = "save" -> [ lists EXCEPT !.saved = Append(@, movie) ]
    [] OTHER -> lists

\* variant of the trim in handleAction that keeps the 15 oldest ids
TrimRecentOldest(recent) ==
  IF Len(recent) > TrimThreshold THEN SubSeq(recent, 1, TrimKeep) ELSE recent

\* variant of the trim in handleAction written with slice(15): it drops the
\* 15 oldest ids
TrimRecentDropFifteen(recent) ==
  IF Len(recent) > TrimThreshold
  THEN SubSeq(recent, TrimKeep + 1, Len(recent))
  ELSE recent

\* variant of the trim in handleAction that never trims
TrimRecentNever(recent) == recent

\* handleAction: above 30 ids the window keeps its 15 most recent ids
TrimRecent(recent) ==
  IF Len(recent) > TrimThreshold THEN SliceLast(recent, TrimKeep) ELSE recent

\* handleAction up to its call of fetchNextMovie
ActionUpdate(s, action) ==
  [ s EXCEPT !.currentMovie = NoMovie,
             !.userLists = Classify(s.userLists, s.currentMovie, action),
             !.recentlyFetchedIds = TrimRecent(@),
             !.action = action ]

\* the feedback sent for a save as well
SubmitFeedbackAlways(s, cl, movie, action) ==
  IF action \in { "like", "dislike", "save" }
  THEN [ s EXCEPT !.feedbackPending =
                     Append(@, [ user_vector |-> cl.userVector,
                                 movie_id |-> movie,
                                 feedback |-> action ]),
                  !.sent = Append(@, "feedback") ]
  ELSE s

\* if (action === 'like' || action === 'dislike') MovieAPI.submitFeedback(...)
\* up to its await: the request is sent and handleAction is suspended
SubmitFeedback(s, cl, movie, action) ==
  IF action \in { "like", "dislike" }
  THEN [ s EXCEPT !.feedbackPending =
                     Append(@, [ user_vector |-> cl.userVector,
                                 movie_id |-> movie,
                                 feedback |-> action ]),
                  !.sent = Append(@, "feedback") ]
  ELSE s

\* handleAction sending the feedback before it calls fetchNextMovie
ActionRequestsFeedbackFirst(s, cl, movie, action) ==
  FetchNextMovie(SubmitFeedback(s, cl, movie, action), cl, "user")

\* handleAction from its call of fetchNextMovie on: fetchNextMovie runs up
\* to its await, then the feedback is submitted
ActionRequests(s, cl, movie, action) ==
  SubmitFeedback(FetchNextMovie(s, cl, "user"), cl, movie, action)

\* the catch block of handleAction submitting the feedback again
ResolveFeedbackFailureRetry(s, i) ==
  [ s EXCEPT !.feedbackPending = Append(RemoveAt(@, i), @[i]),
             !.sent = Append(@, "feedback") ]

\* the feedback request i failed: catch (error) { console.error(...) }
ResolveFeedbackFailure(s, i) ==
  [ s EXCEPT !.feedbackPending = RemoveAt(@, i) ]

\* the feedback request i succeeded: the response is not read
ResolveFeedbackSuccess(s, i) ==
  [ s EXCEPT !.feedbackPending = RemoveAt(@, i) ]

MoveMovie(lists, movie, fromList, toList) ==
  LET removed == [ lists EXCEPT ![fromList] = Without(@, movie) ] IN
  IF movie \in Range(removed[toList])
  THEN removed
  ELSE [ removed EXCEPT ![toList] = Append(@, movie) ]

RemoveMovie(lists, movie, fromList) ==
  [ lists EXCEPT ![fromList] = Without(@, movie) ]

\* resetMovies up to its call of fetchNextMovie
ResetUpdate(s) ==
  [ s EXCEPT !.currentMovie = NoMovie,
             !.userVector = Null,
             !.recentlyFetchedIds = << >>,
             !.fetchAttemptCount = 0,
             !.filters = [ genres |-> << >>, languages |-> << >>,
                           yearRange |-> << YearMin, YearMax >> ] ]

Abs(x) == IF x < 0 THEN -x ELSE x

\* the release committing at the threshold itself
ResolveGestureInclusive(tx, ty) ==
  IF ty <= -VerticalThreshold /\ Abs(tx) <= SwipeThreshold THEN "save"
  ELSE IF tx >= SwipeThreshold THEN "like"
  ELSE IF tx <= -SwipeThreshold THEN "dislike"
  ELSE "none"

\* the release committing at the thresholds of the indicator
ResolveGestureAtIndicator(tx, ty) ==
  IF ty < -IndicatorThreshold /\ Abs(tx) < IndicatorThreshold THEN "save"
  ELSE IF tx > IndicatorThreshold THEN "like"
  ELSE IF tx < -IndicatorThreshold THEN "dislike"
  ELSE "none"

\* the if / else if chain of SwipeCard.handleEnd with the callbacks of
\* MovieCard: onSwipeUp is save, onSwipeRight like, onSwipeLeft dislike
ResolveGesture(tx, ty) ==
  IF ty < -VerticalThreshold /\ Abs(tx) < SwipeThreshold THEN "save"
  ELSE IF tx > SwipeThreshold THEN "like"
  ELSE IF tx < -SwipeThreshold THEN "dislike"
  ELSE "none"

getSwipeIndicator(tx, ty) ==
  IF ty < -IndicatorThreshold /\ Abs(tx) < IndicatorThreshold THEN "SAVE"
  ELSE IF tx > IndicatorThreshold THEN "LIKE"
  ELSE IF tx < -IndicatorThreshold THEN "PASS"
  ELSE "null"

ToggleIn(seq, x) == IF x \in Range(seq) THEN Without(seq, x) ELSE Append(seq, x)


(* ------------------------------------------------------------------ *)
(* Steps.  Commit(s, ...) is the render that follows the task: the      *)
(* state record becomes the committed state; the remaining variables    *)
(* record what the step was, for the properties below                   *)
(* ------------------------------------------------------------------ *)
\* swipeCard is the state of the SwipeCard of the displayed candidate and
\* lastGesture the displacement and the outcome of the gesture released in
\* the step.  feedbackPending holds the feedback requests awaiting their response;
\* lastSent lists the requests the step sent, in the order it sent them,
\* and lastAction is the action of a handleAction step.
\* lastVector is the preference vector of the last acceptance that carried
\* one.  runReqs and runDups count the requests and the duplicate responses of the
\* current run: a request issued from an event handler or an effect and the
\* retries that follow it; a response that is no duplicate ends the run
\* MovieCard, and the SwipeCard inside it, is rendered in the swipe view
\* when !isLoading and currentMovie; when it is not, its state is lost
CardShown(s) ==
  s.currentView = "swipe" /\ ~s.isLoading /\ s.currentMovie # NoMovie

RunEnds == { "accept", "error", "failure", "empty" }

MarkStale(s) ==
  [ s EXCEPT !.inFlight = [ i \in 1..Len(@) |-> [ @[i] EXCEPT !.stale = TRUE ] ] ]

Commit(s, op, stale) ==
  /\ currentView' = s.currentView
  /\ currentMovie' = s.currentMovie
  /\ userLists' = s.userLists
  /\ userVector' = s.userVector
  /\ isLoading' = s.isLoading
  /\ hasStarted' = s.hasStarted
  /\ filters' = s.filters
  /\ recentlyFetchedIds' = s.recentlyFetchedIds
  /\ fetchTimeoutRef' = s.fetchTimeoutRef
  /\ fetchAttemptCount' = s.fetchAttemptCount
  /\ timers' = s.timers
  /\ inFlight' = s.inFlight
  /\ lastOp' = op
  /\ lastFetch' = s.lastFetch
  /\ lastCancel' = s.cancelled
  /\ lastStale' = stale
  /\ runReqs' = CASE s.issuedBy = "user" -> 1
                  [] s.issuedBy = "timer" -> Min(runReqs + 1, maxFetchAttempts + 1)
                  [] op \in RunEnds \/ s.lastFetch = "aborted" -> 0
                  [] OTHER -> runReqs
  /\ runDups' = CASE s.issuedBy = "user" -> 0
                  [] op = "duplicate" -> Min(runDups + 1, maxFetchAttempts + 1)
                  [] op \in RunEnds \/ s.lastFetch = "aborted" -> 0
                  [] OTHER -> runDups
  /\ feedbackPending' = s.feedbackPending
  /\ lastSent' = s.sent
  /\ lastAction' = s.action
  /\ swipeCard' = IF CardShown(s) THEN s.swipeCard ELSE SwipeCardInit
  /\ lastGesture' = s.gesture
  /\ lastMove' = s.move
  /\ lastVector' = IF op = "accept" /\ s.userVector # Null THEN s.userVector
                                                            ELSE lastVector

\* IntroScreen is rendered (and nothing else) while currentView = 'intro'
HandleStartSwiping(pre) ==
  /\ currentView = "intro"
  /\ Commit(FetchEffect(StartSwiping(Cur, pre)), "start", FALSE)

\* the MovieMatch title of the navigation bar, rendered outside the intro
HandleGoHome ==
  /\ currentView # "intro"
  /\ Commit(FetchEffect(MarkStale(GoHome(Cur))), "home", FALSE)

\* the Discover and My Lists buttons of the navigation bar
SetCurrentView(v) ==
  /\ currentView # "intro"
  /\ v # currentView
  /\ Commit(FetchEffect([ Cur EXCEPT !.currentView = v ]), "view", FALSE)

\* Filters is rendered in the swipe view; every call of onFiltersChange
\* stores a new object, so the effect on [filters, ...] runs
FiltersChange(f, op) ==
  /\ currentView = "swipe"
  /\ Commit(FetchEffect([ Cur EXCEPT !.filters = f ]), op, FALSE)

HandleGenreToggle(g) ==
  FiltersChange([ filters EXCEPT !.genres = ToggleIn(@, g) ], "filter")

HandleLanguageToggle(l) ==
  FiltersChange([ filters EXCEPT !.languages = ToggleIn(@, l) ], "filter")

HandleYearRangeChange(newRange) ==
  FiltersChange([ filters EXCEPT !.yearRange = newRange ], "filter")

hasActiveFilters ==
  \/ Len(filters.genres) > 0
  \/ Len(filters.languages) > 0
  \/ filters.yearRange # << YearMin, YearMax >>

ClearFilters ==
  /\ hasActiveFilters
  /\ FiltersChange([ genres |-> << >>, languages |-> << >>,
                     yearRange |-> << YearMin, YearMax >> ], "filter")

\* MovieCard and SwipeControls are rendered in the swipe view when
\* !isLoading and currentMovie; the handler checks the same again
HandleAction(action) ==
  /\ currentView = "swipe"
  /\ ~isLoading
  /\ currentMovie # NoMovie
  /\ Commit(ActionRequests(ActionUpdate(Cur, action), Closure(Cur),
                           currentMovie, action),
            IF action = "skip" THEN "skip" ELSE "classify", FALSE)

\* handleMoveMovie called with any arguments of its type: the functional
\* update of userLists, whatever the source list holds
MoveMovieCall(movie, fromList, toList) ==
  /\ currentView = "lists"
  /\ fromList # toList
  /\ Commit([ Cur EXCEPT
               !.userLists = MoveMovie(@, movie, fromList, toList),
               !.move = [ movie |-> movie, fromList |-> fromList,
                          toList |-> toList ] ],
            "move", FALSE)

\* MovieLists is rendered in the lists view; a card of list fromList offers
\* the moves to the two other lists and the removal
HandleMoveMovie(movie, fromList, toList) ==
  /\ movie \in Range(userLists[fromList])
  /\ MoveMovieCall(movie, fromList, toList)

HandleRemoveMovie(movie, fromList) ==
  /\ currentView = "lists"
  /\ movie \in Range(userLists[fromList])
  /\ Commit([ Cur EXCEPT !.userLists = RemoveMovie(@, movie, fromList) ],
            "remove", FALSE)

\* the Reset button is rendered in the swipe view when !isLoading and
\* !currentMovie; setFilters stores a new object, so the effect runs after
\* the fetchNextMovie of the handler's own render
ResetMovies ==
  /\ currentView = "swipe"
  /\ ~isLoading
  /\ currentMovie = NoMovie
  /\ LET s1 == FetchNextMovie(MarkStale(ResetUpdate(Cur)), Closure(Cur), "user")
         s2 == FetchEffect(s1)
     IN Commit([ s2 EXCEPT !.lastFetch = s1.lastFetch,
                           !.issuedBy = IF s1.issuedBy # "none" THEN s1.issuedBy
                                                                 ELSE s2.issuedBy ],
               "reset", FALSE)

\* the callback of setTimeout(() => fetchNextMovie(), delay)
TimerFires(t) ==
  /\ t \in timers
  /\ Commit(FetchNextMovie([ Cur EXCEPT !.timers = @ \ { t } ], t.cl, "timer"),
            "timer", FALSE)

\* SwipeCard.handleStart at the pointer position (x, y)
SwipeHandleStart(x, y) ==
  /\ CardShown(Cur)
  /\ Commit([ Cur EXCEPT !.swipeCard.isDragging = TRUE,
                         !.swipeCard.startX = x,
                         !.swipeCard.startY = y ], "dragStart", FALSE)

\* SwipeCard.handleMove at the pointer position (x, y)
SwipeHandleMove(x, y) ==
  /\ CardShown(Cur)
  /\ swipeCard.isDragging
  /\ Commit([ Cur EXCEPT !.swipeCard.translateX = x - swipeCard.startX,
                         !.swipeCard.translateY = y - swipeCard.startY ],
            "dragMove", FALSE)

\* SwipeCard.handleEnd: the callback of MovieCard calls handleAction
SwipeHandleEnd ==
  /\ CardShown(Cur)
  /\ swipeCard.isDragging
  /\ LET g == ResolveGesture(swipeCard.translateX, swipeCard.translateY)
         s0 == [ Cur EXCEPT !.swipeCard.isDragging = FALSE,
                            !.swipeCard.translateX = 0,
                            !.swipeCard.translateY = 0,
                            !.gesture = [ action |-> g,
                                          dx |-> swipeCard.translateX,
                                          dy |-> swipeCard.translateY ] ]
     IN IF g = "none"
        THEN Commit(s0, "release", FALSE)
        ELSE Commit(ActionRequests(ActionUpdate(s0, g), Closure(Cur),
                                   currentMovie, g), "classify", FALSE)

\* the continuation of handleAction after await MovieAPI.submitFeedback
FeedbackFails(i) ==
  /\ i \in 1..Len(feedbackPending)
  /\ Commit(ResolveFeedbackFailure(Cur, i), "feedbackFail", FALSE)

FeedbackSucceeds(i) ==
  /\ i \in 1..Len(feedbackPending)
  /\ Commit(ResolveFeedbackSuccess(Cur, i), "feedbackOk", FALSE)

Take(i) == [ Cur EXCEPT !.inFlight = RemoveAt(@, i) ]

RespondError(i) ==
  /\ i \in 1..Len(inFlight)
  /\ Commit(ResolveError(Take(i)), "error", inFlight[i].stale)

RespondFailure(i) ==
  /\ i \in 1..Len(inFlight)
  /\ Commit(ResolveFailure(Take(i)), "failure", inFlight[i].stale)

RespondEmpty(i) ==
  /\ i \in 1..Len(inFlight)
  /\ Commit(ResolveEmpty(Take(i)), "empty", inFlight[i].stale)

RespondMovie(i, m, uv) ==
  /\ i \in 1..Len(inFlight)
  /\ Commit(ResolveMovie(Take(i), inFlight[i], m, uv),
            IF m \in Range(inFlight[i].allExcludedIds) THEN "duplicate" ELSE "accept",
            inFlight[i].stale)

(* ------------------------------------------------------------------ *)
(* Specification: every interleaving of user events, timer firings and  *)
(* responses, over NumIds movie ids                                     *)
(* ------------------------------------------------------------------ *)
Init ==
  /\ currentView = "intro"
  /\ currentMovie = NoMovie
  /\ userLists = [ liked |-> << >>, saved |-> << >>, disliked |-> << >> ]
  /\ userVector = Null
  /\ isLoading = FALSE
  /\ hasStarted = FALSE
  /\ filters = [ genres |-> << >>, languages |-> << >>,
                 yearRange |-> << YearDefaultStart, YearMax >> ]
  /\ recentlyFetchedIds = << >>
  /\ fetchTimeoutRef = NoTimer
  /\ fetchAttemptCount = 0
  /\ timers = { }
  /\ inFlight = << >>
  /\ lastOp = "init"
  /\ lastFetch = "none"
  /\ lastCancel = FALSE
  /\ lastStale = FALSE
  /\ runReqs = 0
  /\ runDups = 0
  /\ lastVector = Null
  /\ feedbackPending = << >>
  /\ lastSent = << >>
  /\ lastAction = "none"
  /\ swipeCard = SwipeCardInit
  /\ lastGesture = GestureIdle
  /\ lastMove = NoMove

\* Spec explores every interleaving of the fetch cycle: the user starts
\* without pre-selected movies, likes or skips, toggles a genre, switches
\* views, goes home and resets, while timers fire and responses of every
\* kind arrive.  The guards on TotalListed and Len(inFlight) bound the
\* model, not the code
NoPreselection == { << >> }
CoreActions == { "like", "skip" }
NoVectors == { Null }

Next ==
  \/ \E pre \in NoPreselection : HandleStartSwiping(pre)
  \/ HandleGoHome
  \/ \E v \in { "swipe", "lists" } : SetCurrentView(v)
  \/ \E g \in availableGenres : HandleGenreToggle(g)
  \/ \E a \in CoreActions :
       /\ a # "skip" => TotalListed(userLists) < MaxListed
       /\ HandleAction(a)
  \/ ResetMovies
  \/ \E t \in timers : Len(inFlight) < MaxInFlight /\ TimerFires(t)
  \/ \E i \in 1..Len(inFlight) : RespondError(i)
  \/ \E i \in 1..Len(inFlight) : RespondFailure(i)
  \/ \E i \in 1..Len(inFlight) : RespondEmpty(i)
  \/ \E i \in 1..Len(inFlight), m \in MovieIds, uv \in NoVectors :
       RespondMovie(i, m, uv)

Spec == Init /\ [][Next]_vars

\* SpecLists explores the three lists: the user starts without pre-selected
\* movies, classifies the candidates with every action and moves and
\* removes movies in the lists view, while candidates arrive
NextLists ==
  \/ \E pre \in NoPreselection : HandleStartSwiping(pre)
  \/ \E v \in { "swipe", "lists" } : SetCurrentView(v)
  \/ \E a \in Actions :
       /\ a # "skip" => TotalListed(userLists) < MaxListedL
       /\ HandleAction(a)
  \/ \E m \in MovieIds, a, b \in ListNames : HandleMoveMovie(m, a, b)
  \/ \E m \in MovieIds, a \in ListNames : HandleRemoveMovie(m, a)
  \/ ResetMovies
  \/ \E t \in timers : Len(inFlight) < MaxInFlight /\ TimerFires(t)
  \/ \E i \in 1..Len(inFlight), m \in MovieIds, uv \in NoVectors :
       RespondMovie(i, m, uv)

SpecLists == Init /\ [][NextLists]_vars

\* SpecPre explores the intro screen: the user starts with or without a
\* pre-selected movie, likes or dislikes, goes home and starts again, while
\* candidates arrive and timers fire
PreActions == { "like", "dislike" }

Preselections ==
  { pre \in UNION { [ 1..n -> MovieIds ] : n \in 0..MaxPreselect } : NoDup(pre) }

NextPre ==
  \/ \E pre \in Preselections :
       /\ TotalListed(userLists) + Len(pre) <= MaxListedP
       /\ HandleStartSwiping(pre)
  \/ HandleGoHome
  \/ \E a \in PreActions :
       /\ TotalListed(userLists) < MaxListedP
       /\ HandleAction(a)
  \/ \E t \in timers : Len(inFlight) < MaxInFlight /\ TimerFires(t)
  \/ \E i \in 1..Len(inFlight), m \in MovieIds, uv \in NoVectors :
       RespondMovie(i, m, uv)

SpecPre == Init /\ [][NextPre]_vars

\* SpecMove applies handleMoveMovie to every movie and pair of lists, the
\* source holding the movie or not, on the lists that starting with and
\* without pre-selected movies, going home and removing produce; the
\* recommendation requests stay unanswered
NextMove ==
  \/ \E pre \in Preselections :
       /\ TotalListed(userLists) + Len(pre) <= MaxListedM
       /\ HandleStartSwiping(pre)
  \/ HandleGoHome
  \/ \E v \in { "swipe", "lists" } : SetCurrentView(v)
  \/ \E m \in MovieIds, a, b \in ListNames : MoveMovieCall(m, a, b)
  \/ \E m \in MovieIds, a \in ListNames : HandleRemoveMovie(m, a)

SpecMove == Init /\ [][NextMove]_vars

\* SpecWindow and SpecWindowDup explore the rolling window over NumIdsW
\* movie ids: the user starts, toggles a genre to fetch another candidate
\* and likes candidates.  In SpecWindow the service answers each request
\* with the lowest id above every id the request excludes; in
\* SpecWindowDup the user starts with movie 1 pre-selected and does not
\* classify, and the service may also answer with an id of the lists
MovieIdsW == 1..NumIdsW

NextFree(excluded) ==
  LET above == { m \in MovieIdsW : \A x \in Range(excluded) : m > x } IN
  IF above = { } THEN { } ELSE { CHOOSE m \in above : \A n \in above : m <= n }

NextWindow ==
  \/ \E pre \in NoPreselection : HandleStartSwiping(pre)
  \/ \E g \in availableGenres : HandleGenreToggle(g)
  \/ /\ TotalListed(userLists) < MaxListedW
     /\ HandleAction("like")
  \/ \E i \in 1..Len(inFlight) :
       \E m \in NextFree(inFlight[i].allExcludedIds), uv \in NoVectors :
         RespondMovie(i, m, uv)

SpecWindow == Init /\ [][NextWindow]_vars

OnePreselection == { << 1 >> }

NextWindowDup ==
  \/ \E pre \in OnePreselection : HandleStartSwiping(pre)
  \/ \E g \in availableGenres : HandleGenreToggle(g)
  \/ \E t \in timers : Len(inFlight) < MaxInFlight /\ TimerFires(t)
  \/ \E i \in 1..Len(inFlight) :
       \E m \in NextFree(inFlight[i].allExcludedIds) \cup ListedIds(userLists),
          uv \in NoVectors :
         RespondMovie(i, m, uv)

SpecWindowDup == Init /\ [][NextWindowDup]_vars

\* SpecFilters explores the filter panel: the user starts without
\* pre-selected movies and toggles a genre or a language, moves the year
\* slider to another range and clears the filters, while candidates
\* arrive and timers fire
NextFilters ==
  \/ \E pre \in NoPreselection : HandleStartSwiping(pre)
  \/ \E g \in availableGenres : HandleGenreToggle(g)
  \/ \E l \in availableLanguages : HandleLanguageToggle(l)
  \/ \E r \in YearRanges : r # filters.yearRange /\ HandleYearRangeChange(r)
  \/ ClearFilters
  \/ \E t \in timers : Len(inFlight) < MaxInFlight /\ TimerFires(t)
  \/ \E i \in 1..Len(inFlight), m \in MovieIds, uv \in NoVectors :
       RespondMovie(i, m, uv)

SpecFilters == Init /\ [][NextFilters]_vars

\* SpecParams selects among two genres, two languages and three year
\* ranges, so that the selections hold several entries in either order and
\* each year bound is at its default with the other one changed; the
\* service answers with one movie, accepted once and a duplicate afterwards
SomeGenres == { "Action", "Comedy" }
SomeLanguages == { "en", "fr" }
SomeYearRanges == { << YearMin, YearMax >>, << YearMin, 2010 >>, << 2000, 2010 >> }
OneMovie == { 1 }

NextParams ==
  \/ \E pre \in NoPreselection : HandleStartSwiping(pre)
  \/ \E g \in SomeGenres : HandleGenreToggle(g)
  \/ \E l \in SomeLanguages : HandleLanguageToggle(l)
  \/ \E r \in SomeYearRanges : r # filters.yearRange /\ HandleYearRangeChange(r)
  \/ ClearFilters
  \/ \E t \in timers : Len(inFlight) < MaxInFlight /\ TimerFires(t)
  \/ \E i \in 1..Len(inFlight), m \in OneMovie, uv \in NoVectors :
       RespondMovie(i, m, uv)

SpecParams == Init /\ [][NextParams]_vars

\* SpecVector explores the preference vector: the user starts, likes,
\* goes home and resets, while timers fire and candidates arrive with or
\* without an updated vector
AnyVector == Vectors \cup NoVectors

NextVector ==
  \/ \E pre \in NoPreselection : HandleStartSwiping(pre)
  \/ HandleGoHome
  \/ /\ TotalListed(userLists) < MaxListed
     /\ HandleAction("like")
  \/ ResetMovies
  \/ \E t \in timers : Len(inFlight) < MaxInFlight /\ TimerFires(t)
  \/ \E i \in 1..Len(inFlight), m \in MovieIds, uv \in AnyVector :
       RespondMovie(i, m, uv)

SpecVector == Init /\ [][NextVector]_vars

\* SpecFeedback explores the feedback submissions: the user starts and
\* classifies or skips the candidates, while candidates arrive with or
\* without an updated vector, timers fire and the feedback requests
\* succeed or fail
NextFeedback ==
  \/ \E pre \in NoPreselection : HandleStartSwiping(pre)
  \/ \E a \in Actions :
       /\ a # "skip" => TotalListed(userLists) < MaxListedL
       /\ HandleAction(a)
  \/ \E i \in 1..Len(feedbackPending) : FeedbackFails(i)
  \/ \E i \in 1..Len(feedbackPending) : FeedbackSucceeds(i)
  \/ \E t \in timers : Len(inFlight) < MaxInFlight /\ TimerFires(t)
  \/ \E i \in 1..Len(inFlight), m \in MovieIds, uv \in AnyVector :
       RespondMovie(i, m, uv)

SpecFeedback == Init /\ [][NextFeedback]_vars

\* SpecTrim explores the ageing of the rolling window over NumIdsW movie
\* ids: the user likes the candidates, and at most MaxUnlistedT times
\* toggles a genre while a candidate is displayed, which replaces the
\* candidate and leaves its id in the window and in no list.  The service
\* answers as in SpecWindow, so that an id tells when it was offered
LastOffered == IF recentlyFetchedIds = << >> THEN 0
               ELSE recentlyFetchedIds[Len(recentlyFetchedIds)]

NextTrim ==
  \/ \E pre \in NoPreselection : HandleStartSwiping(pre)
  \/ \E g \in availableGenres :
       /\ ~isLoading
       /\ currentMovie # NoMovie
       /\ LastOffered - TotalListed(userLists) <= MaxUnlistedT
       /\ HandleGenreToggle(g)
  \/ HandleAction("like")
  \/ \E i \in 1..Len(inFlight) :
       \E m \in NextFree(inFlight[i].allExcludedIds), uv \in NoVectors :
         RespondMovie(i, m, uv)

SpecTrim == Init /\ [][NextTrim]_vars

\* SpecGesture explores the gestures on the card: the user starts,
\* presses the card at a start point, drags it by a displacement of
\* DeltaXs x DeltaYs and releases it, while the service answers as in
\* SpecWindow.  The displacements hold the thresholds 60, 100 and 120,
\* their neighbours and the four gestures of the scenario
StartPoints == { << 0, 0 >>, << 200, 300 >> }
DeltaXs == { -130, -121, -120, -119, -61, 0, 20, 50, 61, 119, 120, 121, 130 }
DeltaYs == { -110, -101, -100, -99, -61, 0, 30 }

NextGesture ==
  \/ \E pre \in NoPreselection : HandleStartSwiping(pre)
  \/ \E p \in StartPoints : ~swipeCard.isDragging /\ SwipeHandleStart(p[1], p[2])
  \/ \E dx \in DeltaXs, dy \in DeltaYs :
       SwipeHandleMove(swipeCard.startX + dx, swipeCard.startY + dy)
  \/ /\ ResolveGesture(swipeCard.translateX, swipeCard.translateY) # "none"
          => TotalListed(userLists) < MaxListedL
     /\ SwipeHandleEnd
  \/ \E i \in 1..Len(inFlight) :
       \E m \in NextFree(inFlight[i].allExcludedIds), uv \in NoVectors :
         RespondMovie(i, m, uv)

SpecGesture == Init /\ [][NextGesture]_vars

(* ------------------------------------------------------------------ *)
(* Properties of the fetch cycle                                        *)
(* ------------------------------------------------------------------ *)

\* C1: at most one recommendation request is in flight in every reachable
\* state; a retry timer is pending only while no request is in flight, and
\* at most one retry timer is pending, so that a retry never runs next to
\* another retry or next to a fresh request.
SingleFlight ==
  /\ Len(inFlight) <= 1
  /\ Cardinality(timers) <= 1
  /\ timers # { } => inFlight = << >>

\* a call of fetchNextMovie that found a retry request outstanding and
\* issued nothing
SingleFlightWitness ==
  /\ lastFetch = "blocked"
  /\ Len(inFlight) = 1
  /\ fetchAttemptCount > 0

\* C3: a run is a request issued from a handler or an effect followed by
\* the retries of its duplicates.  A run never issues more than 5 requests,
\* and when its 5th consecutive duplicate has arrived exactly 5 requests
\* were issued and the state is the empty state: no candidate, not loading,
\* no retry timer pending and no request in flight.
FiveDuplicatesStop ==
  /\ runReqs <= maxFetchAttempts
  /\ runDups = maxFetchAttempts =>
       /\ runReqs = maxFetchAttempts
       /\ currentMovie = NoMovie
       /\ ~isLoading
       /\ timers = { }
       /\ inFlight = << >>

FiveDuplicatesWitness ==
  /\ lastOp = "duplicate"
  /\ runDups = maxFetchAttempts

RetryCancelledByNewCycle ==
  (lastOp # "timer" /\ lastFetch # "none") => timers = { }

\* a filter change that found a retry pending, cancelled it and issued the
\* request of the new cycle
RetryCancelledWitness ==
  /\ lastOp = "filter"
  /\ lastCancel
  /\ lastFetch = "issued"

\* C8 as claimed: the response of a request that was outstanding when the
\* user went home changes neither the displayed candidate, nor the
\* preference vector, nor the rolling window, nor the attempt count.
StaleResponseDiscarded ==
  [][lastStale' =>
       UNCHANGED << currentMovie, userVector, recentlyFetchedIds,
                    fetchAttemptCount >>]_vars

\* C10: an error response or a transport failure sets the attempt count to
\* 0 and clears the candidate, leaves the rolling window and the lists as
\* they were, and leaves no retry timer pending, no request in flight and
\* the loading flag cleared, so that only a user event issues the next
\* request.
ErrorIsTerminal ==
  [][lastOp' \in { "error", "failure" } =>
       /\ fetchAttemptCount' = 0
       /\ currentMovie' = NoMovie
       /\ UNCHANGED << recentlyFetchedIds, userLists >>
       /\ timers' = { }
       /\ inFlight' = << >>
       /\ ~isLoading']_vars

\* an error response that arrived with ids in the rolling window and a
\* movie in the liked list
ErrorIsTerminalWitness ==
  /\ lastOp = "error"
  /\ runReqs = 0
  /\ recentlyFetchedIds # << >>
  /\ userLists.liked # << >>

(* ------------------------------------------------------------------ *)
(* Properties of the lists                                              *)
(* ------------------------------------------------------------------ *)

\* C2 as claimed: in every reachable state no movie id is in more than one
\* of the lists liked, saved and disliked.
ListsDisjoint ==
  /\ Range(userLists.liked) \cap Range(userLists.saved) = { }
  /\ Range(userLists.liked) \cap Range(userLists.disliked) = { }
  /\ Range(userLists.saved) \cap Range(userLists.disliked) = { }

\* C9 as claimed: a movie is never the displayed candidate while its id is
\* in liked, saved or disliked.
CandidateNeverListed ==
  currentMovie # NoMovie => currentMovie \notin ListedIds(userLists)

(* ------------------------------------------------------------------ *)
(* Properties of the rolling window                                     *)
(* ------------------------------------------------------------------ *)

\* C5 as claimed: the rolling window holds at most 50 ids in every
\* reachable state.
WindowAtMostFifty == Len(recentlyFetchedIds) <= MaxRecentIds

\* C6 as claimed: right after a classification the rolling window holds at
\* most 15 ids.
WindowFifteenAfterClassify ==
  lastOp = "classify" => Len(recentlyFetchedIds) <= TrimKeep

\* C6 as amended: right after a classification the rolling window holds at
\* most 30 ids.
WindowThirtyAfterClassify ==
  lastOp = "classify" => Len(recentlyFetchedIds) <= TrimThreshold

\* a classification that trimmed the window to its 15 most recent ids
WindowTrimWitness ==
  /\ lastOp = "classify"
  /\ Len(recentlyFetchedIds) = TrimKeep
  /\ recentlyFetchedIds[1] > TrimKeep

(* ------------------------------------------------------------------ *)
(* Properties of the filters                                            *)
(* ------------------------------------------------------------------ *)

\* C11 as claimed: a change of the year range made while a candidate is
\* displayed and no request is in flight clears the candidate and issues
\* exactly one request, whose year_start and year_end are those of the new
\* range.
YearChangeClearsCandidate ==
  [][(/\ lastOp' = "filter"
      /\ filters'.yearRange # filters.yearRange
      /\ currentMovie # NoMovie
      /\ ~isLoading
      /\ inFlight = << >>)
     => /\ currentMovie' = NoMovie
        /\ Len(inFlight') = 1
        /\ inFlight'[1].req.filterObj = FilterObj(filters')]_vars

\* C12 as claimed: in the swipe view with no request in flight every
\* change of the filters issues a request, whatever the attempt count.
FilterChangeAlwaysFetches ==
  [][(lastOp' = "filter" /\ inFlight = << >> /\ ~isLoading)
     => (Len(inFlight') = 1 /\ isLoading')]_vars

(* ------------------------------------------------------------------ *)
(* Properties of the preference vector                                  *)
(* ------------------------------------------------------------------ *)

\* C13 as claimed: every request carries the vector of the last
\* acceptance that carried a vector.
VectorKeptUntilAcceptance ==
  \A i \in 1..Len(inFlight) : inFlight[i].req.user_vector = lastVector

\* C13 as amended: the stored vector is the vector of the last acceptance
\* that carried one, or null once handleGoHome or resetMovies cleared it.
\* While a vector is stored every request carries exactly it; once it was
\* cleared a request carries null or the vector of that last acceptance.
VectorKeptUntilCleared ==
  /\ userVector \in { lastVector, Null }
  /\ \A i \in 1..Len(inFlight) :
       IF userVector # Null
       THEN inFlight[i].req.user_vector = userVector
       ELSE inFlight[i].req.user_vector \in { lastVector, Null }

\* the request that follows a like carries the vector of the acceptance
\* that displayed the liked candidate
VectorKeptWitness ==
  /\ lastOp = "classify"
  /\ Len(inFlight) = 1
  /\ userVector # Null
  /\ inFlight[1].req.user_vector = userVector

(* ------------------------------------------------------------------ *)
(* Properties of the requests                                           *)
(* ------------------------------------------------------------------ *)

\* C14 as claimed: the seen_ids of a request are, as a set, the ids of the
\* rolling window and of the three lists at the moment the request is
\* issued.
SeenIdsAreWindowAndLists ==
  [][Len(inFlight') > Len(inFlight) =>
       Range(inFlight'[Len(inFlight')].req.seen_ids)
         = Range(recentlyFetchedIds') \cup ListedIds(userLists')]_vars

(* ------------------------------------------------------------------ *)
(* Properties of the feedback submissions                               *)
(* ------------------------------------------------------------------ *)
FetchState ==
  << currentMovie, isLoading, recentlyFetchedIds, fetchAttemptCount,
     fetchTimeoutRef, timers, inFlight >>

\* C15: a like or a dislike sends the recommendation request first and the
\* feedback request second, in the same step, so that the recommendation
\* request is outstanding while the feedback is still pending; and the
\* arrival of a feedback response, success or failure, leaves the state of
\* the fetch cycle as it is.
FetchBeforeFeedback ==
  [][/\ lastAction' \in { "like", "dislike" } =>
          /\ lastSent' = << "recommend", "feedback" >>
          /\ Len(inFlight') = Len(inFlight) + 1
          /\ Len(feedbackPending') = Len(feedbackPending) + 1
     /\ lastOp' \in { "feedbackOk", "feedbackFail" } =>
          UNCHANGED FetchState]_vars

\* a candidate accepted while the feedback of the classification that
\* requested it is still pending
FetchBeforeFeedbackWitness ==
  /\ lastOp = "accept"
  /\ feedbackPending # << >>
  /\ currentMovie # NoMovie

\* C16: a like or a dislike sends exactly one feedback request, with the
\* id of the classified movie, the action and the preference vector stored
\* when the action was taken; no other step sends a feedback request.
FeedbackOncePerLikeDislike ==
  [][IF lastOp' = "classify" /\ lastAction' \in { "like", "dislike" }
     THEN feedbackPending' =
            Append(feedbackPending, [ user_vector |-> userVector,
                                      movie_id |-> currentMovie,
                                      feedback |-> lastAction' ])
     ELSE /\ Len(feedbackPending') <= Len(feedbackPending)
          /\ "feedback" \notin Range(lastSent')]_vars

\* a dislike whose feedback carries a stored vector, and a save that sent
\* nothing
FeedbackOnceWitness ==
  /\ lastOp = "classify"
  /\ lastAction = "save"
  /\ Len(feedbackPending) = 1
  /\ feedbackPending[1].feedback = "dislike"
  /\ feedbackPending[1].user_vector # Null

\* C17: a failed feedback submission changes neither the lists, nor the
\* candidate, nor the rolling window, nor the attempt count, nor the
\* running fetch cycle, nor any other state of the component, and sends
\* nothing: the failed request is gone and is not submitted again.
FailedFeedbackChangesNothing ==
  [][lastOp' = "feedbackFail" =>
       /\ UNCHANGED FetchState
       /\ UNCHANGED << userLists, userVector, currentView, hasStarted, filters >>
       /\ Len(feedbackPending') = Len(feedbackPending) - 1
       /\ lastSent' = << >>]_vars

\* a feedback submission that failed while a recommendation request was
\* outstanding
FailedFeedbackWitness ==
  /\ lastOp = "feedbackFail"
  /\ Len(inFlight) = 1
  /\ userLists.liked # << >>

(* ------------------------------------------------------------------ *)
(* Properties of the ageing of the rolling window                       *)
(* ------------------------------------------------------------------ *)
\* the classifications made after id x was offered: in SpecTrim the ids
\* are offered in increasing order and every classification lists the id
\* it classifies
ClassifiedAfter(x) == Cardinality({ l \in ListedIds(userLists) : l > x })

\* C18: an id that is in the rolling window, or in the seen_ids of an
\* outstanding request, and in no list was offered fewer than 30
\* classifications ago: after that many classifications the id is in the
\* window no more and no request excludes it.
UnlistedIdAgesOut ==
  /\ \A x \in Range(recentlyFetchedIds) \ ListedIds(userLists) :
       ClassifiedAfter(x) < TrimThreshold
  /\ \A i \in 1..Len(inFlight) :
       \A x \in Range(inFlight[i].req.seen_ids) \ ListedIds(userLists) :
         ClassifiedAfter(x) < TrimThreshold

\* an id that was offered and never classified has left the window, and
\* the request that follows the classification does not exclude it
UnlistedIdAgesOutWitness ==
  /\ lastOp = "classify"
  /\ Len(inFlight) = 1
  /\ \E x \in 1..LastOffered :
       /\ x \notin ListedIds(userLists)
       /\ x \notin Range(recentlyFetchedIds)
       /\ x \notin Range(inFlight[1].req.seen_ids)

(* ------------------------------------------------------------------ *)
(* Properties of the gestures                                           *)
(* ------------------------------------------------------------------ *)

\* C19 as claimed: a release with displacement (dx, dy) is a save if
\* dy <= -100 and |dx| < 120, else a like if dx > 120, else a dislike if
\* dx < -120, else none.
GestureAsClaimed ==
  lastGesture.action # "idle" =>
    lastGesture.action =
      IF lastGesture.dy <= -100 /\ Abs(lastGesture.dx) < 120 THEN "save"
      ELSE IF lastGesture.dx > 120 THEN "like"
      ELSE IF lastGesture.dx < -120 THEN "dislike"
      ELSE "none"

\* C19 as amended: a release with displacement (dx, dy) is a save if
\* dy < -100 and |dx| < 120, else a like if dx > 120, else a dislike if
\* dx < -120, else none; at dy = -100 and at |dx| = 120 nothing is
\* committed; and the release that is not none classifies the displayed
\* candidate with that action.
GestureAsAmended ==
  lastGesture.action # "idle" =>
    /\ lastGesture.action =
         IF lastGesture.dy < -100 /\ Abs(lastGesture.dx) < 120 THEN "save"
         ELSE IF lastGesture.dx > 120 THEN "like"
         ELSE IF lastGesture.dx < -120 THEN "dislike"
         ELSE "none"
    /\ lastGesture.action # "none" =>
         (lastOp = "classify" /\ lastAction = lastGesture.action)
    /\ lastGesture.action = "none" => lastOp = "release"

\* a release exactly at the vertical threshold, which commits nothing
GestureBoundaryWitness ==
  /\ lastGesture.action = "none"
  /\ lastGesture.dy = -100
  /\ lastGesture.dx = 20

\* C20: pressing the card, dragging it (whatever the indicator shows) and
\* releasing it at a displacement that commits nothing change neither the
\* lists, nor the candidate, nor the rolling window, nor the fetch state,
\* nor the vector, the filters or the pending feedback, and send no
\* request; the release puts the card back at displacement (0, 0).
DragChangesNothing ==
  [][(\/ lastOp' \in { "dragStart", "dragMove" }
      \/ /\ lastGesture'.action # "idle"
         /\ ~(lastGesture'.dy < -100 /\ Abs(lastGesture'.dx) < 120)
         /\ Abs(lastGesture'.dx) <= 120)
     => /\ UNCHANGED FetchState
        /\ UNCHANGED << userLists, userVector, filters, currentView,
                        hasStarted, feedbackPending >>
        /\ lastSent' = << >>
        /\ lastGesture'.action # "idle" =>
             (swipeCard'.translateX = 0 /\ swipeCard'.translateY = 0)]_vars

\* a release at a displacement for which the indicator showed LIKE and
\* which committed nothing
DragChangesNothingWitness ==
  /\ lastOp = "release"
  /\ getSwipeIndicator(lastGesture.dx, lastGesture.dy) = "LIKE"
  /\ currentMovie # NoMovie

(* ------------------------------------------------------------------ *)
(* Moving a movie that the source list does not hold                    *)
(* ------------------------------------------------------------------ *)
\* C21: a call of handleMoveMovie whose movie is absent from the source list
\* leaves the movie in the target list exactly once, and the same move
\* applied again changes nothing
MoveAbsentOnceIdempotent ==
  [][ ( /\ lastOp' = "move"
        /\ lastMove'.movie \notin Range(userLists[lastMove'.fromList]) )
      => /\ Count(userLists'[lastMove'.toList], lastMove'.movie) = 1
         /\ MoveMovie(userLists', lastMove'.movie, lastMove'.fromList,
                      lastMove'.toList) = userLists' ]_vars

(* ------------------------------------------------------------------ *)
(* What the trim of the rolling window keeps                            *)
(* ------------------------------------------------------------------ *)
\* C22: when the trim of handleAction runs (the window holds more than 30
\* ids), the window after the action is exactly the 15 ids added last to
\* the window before it, in their original order
TrimKeepsLastFifteen ==
  [][ ( /\ lastOp' \in { "classify", "skip" }
        /\ Len(recentlyFetchedIds) > TrimThreshold )
      => /\ Len(recentlyFetchedIds') = TrimKeep
         /\ \A i \in 1..TrimKeep :
              recentlyFetchedIds'[i] =
                recentlyFetchedIds[Len(recentlyFetchedIds) - TrimKeep + i]
    ]_vars

\* a classification trimmed a window of 31 ids, the smallest that is trimmed
TrimAtThirtyOneWitness ==
  /\ lastOp = "classify"
  /\ recentlyFetchedIds = [ i \in 1..TrimKeep |-> TrimThreshold - TrimKeep + 1 + i ]

(* ------------------------------------------------------------------ *)
(* The delays of the backoff                                            *)
(* ------------------------------------------------------------------ *)
\* C23 as claimed: every duplicate response, the one that brings the attempt
\* count to n = 5 included, schedules a retry whose delay is
\* min(200 * 2^(n-1), 2000) ms, so that the delays are 200, 400, 800, 1600
\* and 2000 ms.
RetryAfterEveryDuplicate ==
  [][ lastOp' = "duplicate"
      => \E t \in timers' \ timers :
           /\ t.handle = fetchTimeoutRef'
           /\ t.delay = IF fetchAttemptCount' = 5 THEN 2000
                        ELSE 200 * 2 ^ (fetchAttemptCount' - 1) ]_vars

\* C23 as amended: the duplicate response that brings the attempt count to
\* n schedules a retry of 200, 400, 800 or 1600 ms for n = 1, 2, 3, 4; the
\* one that brings it to 5 schedules nothing, and no retry is ever scheduled
\* with a delay of 2000 ms.
RetryAfterFourDuplicates ==
  [][ lastOp' = "duplicate"
      => /\ fetchAttemptCount' \in 1..5
         /\ IF fetchAttemptCount' < 5
            THEN \E t \in timers' \ timers :
                   /\ t.handle = fetchTimeoutRef'
                   /\ t.delay = << 200, 400, 800, 1600 >>[fetchAttemptCount']
            ELSE timers' = timers
         /\ \A t \in timers' : t.delay \in { 200, 400, 800, 1600 } ]_vars

\* the fourth duplicate of a cycle scheduled its retry after 1600 ms
RetryFourthWitness ==
  /\ lastOp = "duplicate"
  /\ fetchAttemptCount = 4
  /\ runDups = 4
  /\ \E t \in timers : t.handle = fetchTimeoutRef /\ t.delay = 1600

(* ------------------------------------------------------------------ *)
(* The filter parameters of a request                                   *)
(* ------------------------------------------------------------------ *)
\* C24: every request carries at most one genre and one language.  With
\* the filter criteria it is composed from: genre is present exactly when a
\* genre is selected and is the first selected one, likewise language;
\* year_start is present exactly when the lower bound is not 1900 and is
\* that bound, year_end exactly when the upper bound is not 2024
RequestFilterParams ==
  \A i \in 1..Len(inFlight) :
    LET f == inFlight[i].cl.filters
        o == inFlight[i].req.filterObj IN
    /\ (o.genre # AbsentStr) <=> (f.genres # << >>)
    /\ f.genres # << >> => o.genre = Head(f.genres)
    /\ (o.language # AbsentStr) <=> (f.languages # << >>)
    /\ f.languages # << >> => o.language = Head(f.languages)
    /\ (o.year_start # AbsentNum) <=> (f.yearRange[1] # 1900)
    /\ f.yearRange[1] # 1900 => o.year_start = f.yearRange[1]
    /\ (o.year_end # AbsentNum) <=> (f.yearRange[2] # 2024)
    /\ f.yearRange[2] # 2024 => o.year_end = f.yearRange[2]

\* a request composed while Comedy then Action and fr then en are selected
\* and only the upper year bound is changed
RequestFilterParamsWitness ==
  \E i \in 1..Len(inFlight) :
    /\ inFlight[i].cl.filters.genres = << "Comedy", "Action" >>
    /\ inFlight[i].cl.filters.languages = << "fr", "en" >>
    /\ inFlight[i].cl.filters.yearRange = << 1900, 2010 >>
    /\ inFlight[i].req.filterObj =
         [ genre |-> "Comedy", language |-> "fr",
           year_start |-> AbsentNum, year_end |-> 2010 ]

(* ------------------------------------------------------------------ *)
(* The filters a request is composed from                               *)
(* ------------------------------------------------------------------ *)
\* C25: every request issued in a step, a backoff retry included, carries
\* the filter parameters derived from the filter criteria stored when the
\* step begins or from those stored when it ends, never from criteria that
\* were replaced before
RequestCarriesCurrentFilters ==
  [][ lastFetch' = "issued"
      => inFlight'[Len(inFlight')].req.filterObj
           \in { FilterObj(filters), FilterObj(filters') } ]_vars

(* ------------------------------------------------------------------ *)
(* The request that follows an action                                   *)
(* ------------------------------------------------------------------ *)
\* C26: an action on the displayed candidate M issues a request whose
\* excluded ids (seen_ids) hold M's id, while the lists it reads (liked_ids)
\* are those from before the action
ActionRequestExcludesCandidate ==
  [][ lastOp' \in { "classify", "skip" }
      => /\ Len(inFlight') = Len(inFlight) + 1
         /\ LET req == inFlight'[Len(inFlight')].req IN
            /\ currentMovie \in Range(req.seen_ids)
            /\ req.liked_ids = userLists.liked ]_vars

\* a like trimmed the window and its request, built from the lists without
\* the liked movie, excludes that movie
ActionRequestWitness ==
  /\ lastOp = "classify"
  /\ Len(recentlyFetchedIds) = TrimKeep
  /\ Len(inFlight) = 1
  /\ userLists.liked # << >>
  /\ inFlight[1].req.liked_ids = << >>
  /\ userLists.liked[1] \in Range(inFlight[1].req.seen_ids)

(* ------------------------------------------------------------------ *)
(* Ids held more than once by the lists                                 *)
(* ------------------------------------------------------------------ *)
\* C27: in every reachable state, going home and starting again with
\* pre-selected movies included, each movie id occurs at most once in
\* liked, saved and disliked taken together
EachIdListedOnce ==
  NoDup(userLists.liked \o userLists.saved \o userLists.disliked)

(* ------------------------------------------------------------------ *)
(* resetMovies and the request it issues                                *)
(* ------------------------------------------------------------------ *)
\* C28: resetMovies empties the rolling window, sets the attempt count to
\* 0, clears the preference vector, restores the default filters and issues
\* exactly one request, which carries no preference vector and no genre,
\* language or year parameter
ResetRequestIsBlank ==
  [][ lastOp' = "reset"
      => /\ recentlyFetchedIds' = << >>
         /\ fetchAttemptCount' = 0
         /\ userVector' = Null
         /\ filters' = [ genres |-> << >>, languages |-> << >>,
                         yearRange |-> << 1900, 2024 >> ]
         /\ Len(inFlight') = Len(inFlight) + 1
         /\ LET req == inFlight'[Len(inFlight')].req IN
            /\ req.user_vector = Null
            /\ req.filterObj = [ genre |-> AbsentStr, language |-> AbsentStr,
                                 year_start |-> AbsentNum,
                                 year_end |-> AbsentNum ] ]_vars

(* ------------------------------------------------------------------ *)
(* A response with neither a movie nor an error                         *)
(* ------------------------------------------------------------------ *)
\* C29: a response that carries neither a movie nor an error leaves the
\* displayed candidate, the attempt count, the rolling window, the
\* preference vector and the lists as they were, clears loading, schedules
\* no retry and issues no request
EmptyResponseChangesNothing ==
  [][ lastOp' = "empty"
      => /\ currentMovie' = currentMovie
         /\ fetchAttemptCount' = fetchAttemptCount
         /\ recentlyFetchedIds' = recentlyFetchedIds
         /\ userVector' = userVector
         /\ userLists' = userLists
         /\ ~isLoading'
         /\ timers' = timers
         /\ fetchTimeoutRef' = fetchTimeoutRef
         /\ Len(inFlight') = Len(inFlight) - 1 ]_vars

\* the retry of a duplicate was answered without movie and error while a
\* candidate is displayed: the candidate and the attempt count remain
EmptyResponseWitness ==
  /\ lastOp = "empty"
  /\ currentMovie # NoMovie
  /\ fetchAttemptCount > 0
  /\ ~isLoading
  /\ timers = { }

(* ------------------------------------------------------------------ *)
(* The intro screen                                                     *)
(* ------------------------------------------------------------------ *)
\* C30: a step that begins and ends on the intro screen issues no
\* recommendation request, a firing retry timer included, and sets no
\* displayed candidate
IntroScreenIsQuiet ==
  [][ (currentView = "intro" /\ currentView' = "intro")
      => /\ lastFetch' # "issued"
         /\ Len(inFlight') <= Len(inFlight)
         /\ currentMovie' = NoMovie ]_vars

====
